---- MODULE Spec2Model ----
(***************************************************************************)
(* Model of shop/models.py: the field validators, the Customer password    *)
(* field, OrderItem.itemCost and the stored entities with their unique and *)
(* cascade-delete constraints.                                             *)
(*                                                                         *)
(* A string is a sequence of one-character strings.  A validator returns   *)
(* the sequence of the error codes it raises: <<>> when it returns         *)
(* normally, one code when it raises (a raise ends the function).          *)
(***************************************************************************)
EXTENDS Integers, Sequences, FiniteSets, TLC

VARIABLES
    call,        \* a call of a validator or of itemCost: its input, then its result
    customers,   \* id -> Customer row (seller = TRUE: it has a Seller row too)
    categories,  \* id -> Category row
    products,    \* id -> Product row
    orders,      \* id -> Order row
    items,       \* id -> OrderItem row
    payments,    \* id -> Payment row
    last         \* what the last storage operation reported (see Outcome)

vars == <<call, customers, categories, products, orders, items, payments, last>>

store == <<customers, categories, products, orders, items, payments, last>>

(***************************************************************************)
(* Bounds of the exploration.                                              *)
(***************************************************************************)
MaxLen == 3
MaxUsernameLen == 22
MaxQuantity == 3

(***************************************************************************)
(* Character classes of the regular expressions.  The inputs are ASCII,    *)
(* where \d is [0-9].                                                      *)
(***************************************************************************)
AsciiDigits == {"0", "1", "2", "3", "4", "5", "6", "7", "8", "9"}

AsciiLowercase ==
    {"a", "b", "c", "d", "e", "f", "g", "h", "i", "j", "k", "l", "m", "n",
     "o", "p", "q", "r", "s", "t", "u", "v", "w", "x", "y", "z"}

AsciiUppercase ==
    {"A", "B", "C", "D", "E", "F", "G", "H", "I", "J", "K", "L", "M", "N",
     "O", "P", "Q", "R", "S", "T", "U", "V", "W", "X", "Y", "Z"}

AsciiLetters == AsciiLowercase \cup AsciiUppercase

SpecialChars ==
    {"!", "@", "#", "$", "%", "^", "&", "*", "(", ")", ",", ".", "?", "\"",
     ":", "{", "}", "|", "<", ">"}

Newline == "\n"

Range(s) == {s[i] : i \in 1..Len(s)}

RECURSIVE Repeat(_, _)
Repeat(c, n) == IF n <= 0 THEN <<>> ELSE <<c>> \o Repeat(c, n - 1)

\* All strings over alphabet of length at most n.
Strings(alphabet, n) == UNION {[1..k -> alphabet] : k \in 0..n}

(***************************************************************************)
(* re.search(r"[class]", value): scan for the first position that matches. *)
(***************************************************************************)
RECURSIVE SearchFrom(_, _, _)
SearchFrom(class, value, i) ==
    IF i > Len(value) THEN FALSE
    ELSE IF value[i] \in class THEN TRUE
    ELSE SearchFrom(class, value, i + 1)

ReSearch(class, value) == SearchFrom(class, value, 1)

(***************************************************************************)
(* re.match("^[0-9]+$", value).  "^" anchors at the start, "[0-9]+" takes  *)
(* one or more digits, and "$" (no re.MULTILINE) matches at the end of the *)
(* string and also just before a newline that is the last character.       *)
(***************************************************************************)
RECURSIVE DigitRun(_, _)
DigitRun(value, i) ==
    IF i <= Len(value) /\ value[i] \in AsciiDigits
    THEN 1 + DigitRun(value, i + 1)
    ELSE 0

DollarAt(value, k) ==
    \/ k = Len(value)
    \/ k = Len(value) - 1 /\ value[Len(value)] = Newline

ReMatchDigits(value) ==
    \E k \in 1..DigitRun(value, 1) : DollarAt(value, k)

(***************************************************************************)
(* The validators.                                                         *)
(***************************************************************************)
UsernameMin == 3
UsernameMax == 20

\* Mutant: the lower limit compared with <= instead of <.
validate_username_exclusive(value) ==
    IF Len(value) <= UsernameMin \/ Len(value) > UsernameMax
    THEN <<"invalid_username_length">>
    ELSE <<>>

validate_username(value) ==
    IF Len(value) < UsernameMin \/ Len(value) > UsernameMax
    THEN <<"invalid_username_length">>
    ELSE <<>>

validate_phone_number(value) ==
    IF ~ReMatchDigits(value)
    THEN <<"invalid_phone_number">>
    ELSE <<>>

\* Mutant: every failing rule is collected instead of raising at the first.
validate_password_all(value) ==
    (IF ~ReSearch(AsciiDigits, value) THEN <<"invalid_password_numeric">> ELSE <<>>)
        \o (IF ~ReSearch(AsciiLetters, value)
            THEN <<"invalid_password_alphabet">> ELSE <<>>)
        \o (IF ~ReSearch(SpecialChars, value)
            THEN <<"invalid_password_special">> ELSE <<>>)

\* Mutant: the letter class is [a-z] instead of [a-zA-Z].
validate_password_lowercase(value) ==
    IF ~ReSearch(AsciiDigits, value)
    THEN <<"invalid_password_numeric">>
    ELSE IF ~ReSearch(AsciiLowercase, value)
    THEN <<"invalid_password_alphabet">>
    ELSE IF ~ReSearch(SpecialChars, value)
    THEN <<"invalid_password_special">>
    ELSE <<>>

validate_password(value) ==
    IF ~ReSearch(AsciiDigits, value)
    THEN <<"invalid_password_numeric">>
    ELSE IF ~ReSearch(AsciiLetters, value)
    THEN <<"invalid_password_alphabet">>
    ELSE IF ~ReSearch(SpecialChars, value)
    THEN <<"invalid_password_special">>
    ELSE <<>>

MinLengthValidator(limit, value) ==
    IF Len(value) < limit THEN <<"min_length">> ELSE <<>>

\* CharField(max_length=n) appends this validator to the field's list.
MaxLengthValidator(limit, value) ==
    IF Len(value) > limit THEN <<"max_length">> ELSE <<>>

(***************************************************************************)
(* Cleaning one field of a Customer: a required field (blank=False) that   *)
(* is empty fails as "blank" before its validators run; otherwise every    *)
(* validator of the field's list runs, in order, and the errors of all of  *)
(* them are collected.                                                     *)
(***************************************************************************)
PasswordMin == 8
PasswordMax == 20
PhoneMax == 11
AddressMin == 10
AddressMax == 1000

RequiredField(value, errors) ==
    IF value = <<>> THEN <<"blank">> ELSE errors

clean_username(value) ==
    RequiredField(value,
        validate_username(value) \o MaxLengthValidator(UsernameMax, value))

clean_phone(value) ==
    RequiredField(value,
        validate_phone_number(value) \o MaxLengthValidator(PhoneMax, value))

\* Mutant: the field stops at the first validator that fails.
clean_password_first_error(value) ==
    RequiredField(value,
        IF MinLengthValidator(PasswordMin, value) # <<>>
        THEN MinLengthValidator(PasswordMin, value)
        ELSE validate_password(value) \o MaxLengthValidator(PasswordMax, value))

clean_password(value) ==
    RequiredField(value,
        MinLengthValidator(PasswordMin, value)
            \o validate_password(value)
            \o MaxLengthValidator(PasswordMax, value))

clean_address(value) ==
    RequiredField(value,
        MinLengthValidator(AddressMin, value)
            \o MaxLengthValidator(AddressMax, value))

(***************************************************************************)
(* OrderItem.itemCost.  An in-memory OrderItem is [quantity, product],     *)
(* product being the set holding the referenced Product row, or {} when no *)
(* product was assigned.  Prices are counted in hundredths (Decimal with   *)
(* decimal_places=2), and so is the float the property returns.            *)
(*                                                                         *)
(* product is a ForeignKey declared without null=True: reading the         *)
(* attribute of an instance whose product is unset raises                  *)
(* RelatedObjectDoesNotExist instead of returning None.                    *)
(***************************************************************************)
GetProduct(item) ==
    IF item.product = {}
    THEN [raised |-> "RelatedObjectDoesNotExist", obj |-> {}]
    ELSE [raised |-> "", obj |-> item.product]

itemCost(item) ==
    LET got == GetProduct(item) IN
    IF got.raised # ""
    THEN [raised |-> got.raised, cents |-> 0]
    ELSE IF got.obj # {}
    THEN [raised |-> "",
          cents |-> item.quantity * (CHOOSE p \in got.obj : TRUE).price]
    ELSE [raised |-> "", cents |-> 0]

(***************************************************************************)
(* Inputs of the validators.                                               *)
(***************************************************************************)
Str_alllower == <<"a", "l", "l", "l", "o", "w", "e", "r">>
Str_Password1 == <<"P", "a", "s", "s", "w", "o", "r", "d", "1", "!">>
Str_short1 == <<"s", "h", "o", "r", "t", "1", "!">>
Str_01234 == <<"0", "1", "2", "3", "4">>
Str_012a4 == <<"0", "1", "2", "a", "4">>

UsernameInputs == {Repeat("u", n) : n \in 0..MaxUsernameLen}

PhoneAlphabet == {"0", "9", "a", " ", Newline}
PhoneInputs == Strings(PhoneAlphabet, MaxLen) \cup {Str_01234, Str_012a4}

\* "_" is in none of the three classes.
PasswordAlphabet == {"1", "a", "Z", "!", ">", "_"}

\* Every special character, and punctuation that is not one, after "1a".
ProbeChars ==
    SpecialChars \cup {"_", "-", ";", "'", "/", "\\", "[", "]", "+", "=", "~", " "}

PasswordInputs ==
    Strings(PasswordAlphabet, MaxLen)
        \cup {<<"1", "a", c>> : c \in ProbeChars}
        \cup {Str_alllower, Str_Password1, Str_short1}

\* Passwords around the two length limits of the field: a short head followed
\* by a run of ";".
PadLens == {0, PasswordMin - MaxLen, PasswordMin - 1, PasswordMax - MaxLen, PasswordMax}
PasswordFieldInputs ==
    {head \o Repeat(";", n) : head \in Strings({"1", "a", "!", "_"}, MaxLen), n \in PadLens}
        \cup {Str_alllower, Str_Password1, Str_short1}

Prices == {0, 1, 1999, 250000}
ItemInputs ==
    [quantity : 0..MaxQuantity, product : {{}} \cup {{[price |-> p]} : p \in Prices}]

NoItem == [quantity |-> 0, product |-> {}]
NoCost == [raised |-> "", cents |-> 0]

\* A call that is still to be made: of a validator on value, or of itemCost
\* on item.
Pending(fn, value, item) ==
    [fn |-> fn, value |-> value, item |-> item, done |-> FALSE,
     errors |-> <<>>, cost |-> NoCost]

NoCall == Pending("", <<>>, NoItem)

PendingCalls ==
    {Pending("validate_username", v, NoItem) : v \in UsernameInputs}
        \cup {Pending("validate_phone_number", v, NoItem) : v \in PhoneInputs}
        \cup {Pending("validate_password", v, NoItem) : v \in PasswordInputs}
        \cup {Pending("Customer.password", v, NoItem) : v \in PasswordFieldInputs}
        \cup {Pending("itemCost", <<>>, it) : it \in ItemInputs}

(***************************************************************************)
(* The calls: each applies one function to its input and keeps the result. *)
(***************************************************************************)
Returned(errors) ==
    /\ ~call.done
    /\ call' = [call EXCEPT !.done = TRUE, !.errors = errors]
    /\ UNCHANGED store

CallValidateUsername ==
    /\ call.fn = "validate_username"
    /\ Returned(validate_username(call.value))

CallValidatePhoneNumber ==
    /\ call.fn = "validate_phone_number"
    /\ Returned(validate_phone_number(call.value))

CallValidatePassword ==
    /\ call.fn = "validate_password"
    /\ Returned(validate_password(call.value))

CallCleanPassword ==
    /\ call.fn = "Customer.password"
    /\ Returned(clean_password(call.value))

EvalItemCost ==
    /\ call.fn = "itemCost"
    /\ ~call.done
    /\ call' = [call EXCEPT !.done = TRUE, !.cost = itemCost(call.item)]
    /\ UNCHANGED store

(***************************************************************************)
(* The stored entities.  A table is a function from the ids of its rows.   *)
(* Rows hold the fields the constraints are about: the four validated      *)
(* fields of a Customer, Category.name, the foreign keys, Product.price,   *)
(* OrderItem.quantity and Order.status.  A Seller is a Customer row with a *)
(* Seller row of the same id (multi-table inheritance): seller = TRUE.     *)
(*                                                                         *)
(* A write is full_clean() followed by save(): the fields are cleaned, the *)
(* unique and foreign-key constraints are checked, and the row is written  *)
(* only when nothing failed.                                               *)
(***************************************************************************)
MaxCustomers == 2
MaxCategories == 3
MaxProducts == 1
MaxOrders == 1
MaxItems == 1
MaxPayments == 1

NoRemoved ==
    [customers |-> {}, products |-> {}, orders |-> {}, items |-> {}, payments |-> {}]

\* The report of an operation.  A rejected create reports its errors; an
\* update reports the value it was given (arg), the value stored before it
\* and its errors; a delete whose cascade went further than the rows that
\* reference the deleted row reports the rows removed.  An accepted create
\* and a delete that went no further report nothing.
Outcome(op, id, arg, before, errors, removed) ==
    [op |-> op, id |-> id, arg |-> arg, before |-> before, errors |-> errors,
     removed |-> removed]

NoOutcome == Outcome("", 0, "", "", {}, NoRemoved)

Rejected(op, arg, errors) == Outcome(op, 0, arg, "", errors, NoRemoved)

FieldErrors(field, codes) == {<<field, codes[i]>> : i \in 1..Len(codes)}

\* The database allocates the id of a new row: the lowest id not in use.
FreeIds(table, max) ==
    LET free == (1..max) \ DOMAIN table IN
    {i \in free : \A j \in free : i <= j}

Without(table, ids) == [i \in DOMAIN table \ ids |-> table[i]]

(***************************************************************************)
(* Customer and Seller.                                                    *)
(***************************************************************************)
clean_customer(row) ==
    FieldErrors("username", clean_username(row.username))
        \cup FieldErrors("phone", clean_phone(row.phone))
        \cup FieldErrors("password", clean_password(row.password))
        \cup FieldErrors("address", clean_address(row.address))

CreateCustomer(row) ==
    \E id \in FreeIds(customers, MaxCustomers) :
        LET errors == clean_customer(row) IN
        /\ customers' = IF errors = {} THEN (id :> row) @@ customers ELSE customers
        /\ last' = IF errors = {} THEN NoOutcome
                   ELSE Rejected("CreateCustomer", "", errors)
        /\ UNCHANGED <<call, categories, products, orders, items, payments>>

\* username is editable=False; phone, password and address are editable.
UpdateCustomer(id, phone, password, address) ==
    /\ id \in DOMAIN customers
    /\ LET row == [customers[id] EXCEPT
                      !.phone = phone, !.password = password, !.address = address]
           errors == clean_customer(row)
       IN /\ customers' = IF errors = {} THEN [customers EXCEPT ![id] = row]
                          ELSE customers
          /\ last' = Outcome("UpdateCustomer", id, "", "", errors, NoRemoved)
    /\ UNCHANGED <<call, categories, products, orders, items, payments>>

(***************************************************************************)
(* Cascade delete: the rows that reference a deleted row through a foreign *)
(* key declared on_delete=CASCADE are deleted with it.                     *)
(***************************************************************************)
ProductsOfSellers(cs) == {p \in DOMAIN products : products[p].seller \in cs}

OrdersOfCustomers(cs) == {o \in DOMAIN orders : orders[o].customer \in cs}

ItemsOfOrders(os) == {i \in DOMAIN items : items[i].order \in os}

\* Mutant: OrderItem.product does not cascade.
ItemsOfProducts_kept(ps) == {}

ItemsOfProducts(ps) == {i \in DOMAIN items : items[i].product \in ps}

PaymentsOfOrders(os) == {y \in DOMAIN payments : payments[y].order \in os}

\* Everything deleted with the rows of seed: the rows that reference them,
\* and the rows that reference those.
Collect(seed) ==
    LET ps == seed.products \cup ProductsOfSellers(seed.customers)
        os == seed.orders \cup OrdersOfCustomers(seed.customers)
    IN [customers |-> seed.customers,
        products |-> ps,
        orders |-> os,
        items |-> seed.items \cup ItemsOfOrders(os) \cup ItemsOfProducts(ps),
        payments |-> seed.payments \cup PaymentsOfOrders(os)]

\* Whether the cascade went further than the rows that reference seed's.
Transitive(seed, gone) ==
    \/ gone.items # seed.items \cup ItemsOfOrders(seed.orders)
                                \cup ItemsOfProducts(seed.products)
    \/ gone.payments # seed.payments \cup PaymentsOfOrders(seed.orders)

Delete(op, id, seed) ==
    LET gone == Collect(seed) IN
    /\ customers' = Without(customers, gone.customers)
    /\ products' = Without(products, gone.products)
    /\ orders' = Without(orders, gone.orders)
    /\ items' = Without(items, gone.items)
    /\ payments' = Without(payments, gone.payments)
    /\ last' = IF Transitive(seed, gone) THEN Outcome(op, id, "", "", {}, gone) ELSE NoOutcome
    /\ UNCHANGED <<call, categories>>

\* Deleting a Seller deletes its Customer row too, and the other way round.
DeleteCustomer(id) ==
    /\ id \in DOMAIN customers
    /\ Delete("DeleteCustomer", id, [NoRemoved EXCEPT !.customers = {id}])

DeleteProduct(id) ==
    /\ id \in DOMAIN products
    /\ Delete("DeleteProduct", id, [NoRemoved EXCEPT !.products = {id}])

DeleteOrder(id) ==
    /\ id \in DOMAIN orders
    /\ Delete("DeleteOrder", id, [NoRemoved EXCEPT !.orders = {id}])

DeleteOrderItem(id) ==
    /\ id \in DOMAIN items
    /\ Delete("DeleteOrderItem", id, [NoRemoved EXCEPT !.items = {id}])

DeletePayment(id) ==
    /\ id \in DOMAIN payments
    /\ Delete("DeletePayment", id, [NoRemoved EXCEPT !.payments = {id}])

(***************************************************************************)
(* Category: name is unique=True.                                          *)
(***************************************************************************)
NameTaken(name, except) ==
    \E c \in DOMAIN categories \ except : categories[c].name = name

\* Mutant: name is not unique=True.
unique_name_unchecked(name, except) == {}

unique_name(name, except) ==
    IF NameTaken(name, except) THEN {<<"name", "unique">>} ELSE {}

CreateCategory(name) ==
    \E id \in FreeIds(categories, MaxCategories) :
        LET errors == unique_name(name, {}) IN
        /\ categories' = IF errors = {} THEN (id :> [name |-> name]) @@ categories
                         ELSE categories
        /\ last' = IF errors = {} THEN NoOutcome
                   ELSE Rejected("CreateCategory", name, errors)
        /\ UNCHANGED <<call, customers, products, orders, items, payments>>

RenameCategory(id, name) ==
    /\ id \in DOMAIN categories
    /\ LET errors == unique_name(name, {id}) IN
       /\ categories' = IF errors = {} THEN [categories EXCEPT ![id].name = name]
                        ELSE categories
       /\ last' = Outcome("RenameCategory", id, name, categories[id].name, errors,
                        NoRemoved)
    /\ UNCHANGED <<call, customers, products, orders, items, payments>>

DeleteCategory(id) ==
    /\ id \in DOMAIN categories
    /\ categories' = Without(categories, {id})
    /\ last' = NoOutcome
    /\ UNCHANGED <<call, customers, products, orders, items, payments>>

(***************************************************************************)
(* Product, Order, OrderItem, Payment: a foreign key must name a stored    *)
(* row of the table it references (Product.seller: a Seller).              *)
(***************************************************************************)
Sellers == {c \in DOMAIN customers : customers[c].seller}

CreateProduct(seller, price) ==
    /\ seller \in Sellers
    /\ \E id \in FreeIds(products, MaxProducts) :
        /\ products' = (id :> [seller |-> seller, price |-> price]) @@ products
        /\ last' = NoOutcome
    /\ UNCHANGED <<call, customers, categories, orders, items, payments>>

STATUS_CHOICES == {"Ca", "Pn", "Co", "P", "S", "R"}

StatusDefault == "Pn"

CreateOrder(customer) ==
    /\ customer \in DOMAIN customers
    /\ \E id \in FreeIds(orders, MaxOrders) :
        /\ orders' = (id :> [customer |-> customer, status |-> StatusDefault]) @@ orders
        /\ last' = NoOutcome
    /\ UNCHANGED <<call, customers, categories, products, items, payments>>

\* status has choices and is blank=False: an empty value fails as blank, any
\* other value that is not the code of a choice as invalid_choice.
clean_status(status) ==
    IF status = "" THEN {<<"status", "blank">>}
    ELSE IF status \in STATUS_CHOICES THEN {}
    ELSE {<<"status", "invalid_choice">>}

\* Mutant: a transition graph in which Canceled and Completed are final.
UpdateOrderStatus_graph(id, status) ==
    /\ id \in DOMAIN orders
    /\ LET errors == IF orders[id].status \in {"Ca", "Co"}
                     THEN {<<"status", "invalid_transition">>}
                     ELSE clean_status(status)
       IN
       /\ orders' = IF errors = {} THEN [orders EXCEPT ![id].status = status]
                    ELSE orders
       /\ last' = Outcome("UpdateOrderStatus", id, status, orders[id].status, errors,
                        NoRemoved)
    /\ UNCHANGED <<call, customers, categories, products, items, payments>>

UpdateOrderStatus(id, status) ==
    /\ id \in DOMAIN orders
    /\ LET errors == clean_status(status) IN
       /\ orders' = IF errors = {} THEN [orders EXCEPT ![id].status = status]
                    ELSE orders
       /\ last' = Outcome("UpdateOrderStatus", id, status, orders[id].status, errors,
                        NoRemoved)
    /\ UNCHANGED <<call, customers, categories, products, items, payments>>

CreateOrderItem(order, product, quantity) ==
    /\ order \in DOMAIN orders
    /\ product \in DOMAIN products
    /\ \E id \in FreeIds(items, MaxItems) :
        /\ items' = (id :> [order |-> order, product |-> product,
                            quantity |-> quantity]) @@ items
        /\ last' = NoOutcome
    /\ UNCHANGED <<call, customers, categories, products, orders, payments>>

CreatePayment(order) ==
    /\ order \in DOMAIN orders
    /\ \E id \in FreeIds(payments, MaxPayments) :
        /\ payments' = (id :> [order |-> order]) @@ payments
        /\ last' = NoOutcome
    /\ UNCHANGED <<call, customers, categories, products, orders, items>>

(***************************************************************************)
(* Inputs of the storage operations.                                       *)
(***************************************************************************)
Str_07 == <<"0", "7">>
Str_0a == <<"0", "a">>
Str_07nl == <<"0", "7", Newline>>

CustomerRows ==
    [username : {Repeat("u", UsernameMin - 1), Repeat("u", UsernameMin),
                 Repeat("u", UsernameMax + 1)},
     phone : {Str_07, Str_0a, Str_07nl},
     password : {Str_Password1, Str_short1},
     address : {Repeat("x", AddressMin - 1), Repeat("x", AddressMin)},
     seller : BOOLEAN]

ValidRow(seller) ==
    [username |-> Repeat("u", UsernameMin), phone |-> Str_07,
     password |-> Str_Password1, address |-> Repeat("x", AddressMin),
     seller |-> seller]

CategoryNames == {"Electronics", "Books", "Toys"}

StatusInputs == STATUS_CHOICES \cup {"", "X", "Received"}

(***************************************************************************)
(* The specifications.                                                     *)
(***************************************************************************)
EmptyStore ==
    /\ customers = << >>
    /\ categories = << >>
    /\ products = << >>
    /\ orders = << >>
    /\ items = << >>
    /\ payments = << >>
    /\ last = NoOutcome

Init == call = NoCall /\ EmptyStore

InitCalls == call \in PendingCalls /\ EmptyStore

Calls ==
    \/ CallValidateUsername
    \/ CallValidatePhoneNumber
    \/ CallValidatePassword
    \/ CallCleanPassword
    \/ EvalItemCost

CustomerWrites ==
    \/ \E row \in CustomerRows : CreateCustomer(row)
    \/ \E id \in 1..MaxCustomers, row \in CustomerRows :
           UpdateCustomer(id, row.phone, row.password, row.address)
    \/ \E id \in 1..MaxCustomers : DeleteCustomer(id)

CategoryWrites ==
    \/ \E name \in CategoryNames : CreateCategory(name)
    \/ \E id \in 1..MaxCategories, name \in CategoryNames : RenameCategory(id, name)
    \/ \E id \in 1..MaxCategories : DeleteCategory(id)

ValidCustomerWrites ==
    \/ \E seller \in BOOLEAN : CreateCustomer(ValidRow(seller))
    \/ \E id \in 1..MaxCustomers : DeleteCustomer(id)

ShopWrites ==
    \/ \E s \in 1..MaxCustomers : CreateProduct(s, 1999)
    \/ \E c \in 1..MaxCustomers : CreateOrder(c)
    \/ \E o \in 1..MaxOrders, p \in 1..MaxProducts : CreateOrderItem(o, p, 3)
    \/ \E o \in 1..MaxOrders : CreatePayment(o)
    \/ \E id \in 1..MaxProducts : DeleteProduct(id)
    \/ \E id \in 1..MaxOrders : DeleteOrder(id)
    \/ \E id \in 1..MaxItems : DeleteOrderItem(id)
    \/ \E id \in 1..MaxPayments : DeletePayment(id)

OrderWrites ==
    \/ \E c \in 1..MaxCustomers : CreateOrder(c)
    \/ \E id \in 1..MaxOrders, s \in StatusInputs : UpdateOrderStatus(id, s)
    \/ \E id \in 1..MaxOrders : DeleteOrder(id)

Next == Calls \/ CustomerWrites \/ CategoryWrites \/ ShopWrites \/ OrderWrites

Spec == (Init \/ InitCalls) /\ [][Next]_vars

\* The validators and itemCost applied to their inputs.
SpecCalls == InitCalls /\ [][Calls]_vars

\* Customers and Sellers written with valid and invalid field values.
SpecCustomers == Init /\ [][CustomerWrites]_vars

\* Categories created, renamed and deleted.
SpecCategories == Init /\ [][CategoryWrites]_vars

\* Creation and deletion of the rows linked by foreign keys.
SpecShop == Init /\ [][ValidCustomerWrites \/ ShopWrites]_vars

\* Orders and their status.
SpecOrders == Init /\ [][ValidCustomerWrites \/ OrderWrites]_vars

(***************************************************************************)
(* The properties.                                                         *)
(***************************************************************************)
HasChar(class, value) == \E i \in 1..Len(value) : value[i] \in class

ListedSpecials ==
    {"!", "@", "#", "$", "%", "^", "&", "*", "(", ")", ",", ".", "?", "\"",
     ":", "{", "}", "|", "<", ">"}

\* The password rules a value violates.
FailingRules(value) ==
    (IF HasChar(AsciiDigits, value) THEN {} ELSE {"invalid_password_numeric"})
        \cup (IF HasChar(AsciiLetters, value) THEN {} ELSE {"invalid_password_alphabet"})
        \cup (IF HasChar(ListedSpecials, value) THEN {} ELSE {"invalid_password_special"})

\* The first violated rule, in the order digit, letter, special character.
FirstFailingRule(value) ==
    IF "invalid_password_numeric" \in FailingRules(value)
    THEN <<"invalid_password_numeric">>
    ELSE IF "invalid_password_alphabet" \in FailingRules(value)
    THEN <<"invalid_password_alphabet">>
    ELSE IF "invalid_password_special" \in FailingRules(value)
    THEN <<"invalid_password_special">>
    ELSE <<>>

Made(fn) == call.fn = fn /\ call.done

\* C1 as stated: validate_password reports every rule the value violates,
\* each as its own failure code.
C1_ReportsEveryFailingRule ==
    Made("validate_password") => Range(call.errors) = FailingRules(call.value)

\* C1 as amended: validate_password raises at the first rule the value
\* violates, in the order digit, letter, special character, and reports that
\* one failure code only; it reports nothing when no rule is violated.
C1_ReportsFirstFailingRule ==
    Made("validate_password") => call.errors = FirstFailingRule(call.value)

C1_Witness ==
    /\ Made("validate_password")
    /\ call.value = Str_alllower
    /\ FailingRules(call.value) = {"invalid_password_numeric", "invalid_password_special"}
    /\ call.errors = <<"invalid_password_numeric">>

\* C2: validate_username fails with invalid_username_length exactly when the
\* length of the value is below 3 or above 20, and raises nothing for every
\* length from 3 to 20.
C2_UsernameLength ==
    Made("validate_username") =>
        /\ (Len(call.value) < 3 \/ Len(call.value) > 20)
               => call.errors = <<"invalid_username_length">>
        /\ Len(call.value) \in 3..20 => call.errors = <<>>

C2_Witness ==
    /\ Made("validate_username")
    /\ Len(call.value) = 20
    /\ call.errors = <<>>

\* C3: validate_phone_number accepts exactly the non-empty strings made only
\* of the digits 0-9, and fails with invalid_phone_number for every other
\* string.
C3_PhoneAllDigits ==
    Made("validate_phone_number") =>
        IF call.value # <<>> /\ \A i \in 1..Len(call.value) : call.value[i] \in AsciiDigits
        THEN call.errors = <<>>
        ELSE call.errors = <<"invalid_phone_number">>

\* C4: validate_password raises nothing if and only if the value has a digit,
\* an ASCII letter and one of the listed special characters; "Password1!"
\* passes.
C4_PasswordAccepted ==
    Made("validate_password") =>
        /\ call.errors = <<>>
               <=> /\ HasChar(AsciiDigits, call.value)
                   /\ HasChar(AsciiLetters, call.value)
                   /\ HasChar(ListedSpecials, call.value)
        /\ call.value = Str_Password1 => call.errors = <<>>

C4_Witness ==
    /\ Made("validate_password")
    /\ call.value = Str_Password1
    /\ call.errors = <<>>

\* C5 as stated: a password shorter than 8 characters fails with the
\* min-length error, from validate_password as from the password field.
C5_ShortPasswordFailsMinLength ==
    (Made("validate_password") \/ Made("Customer.password")) =>
        (Len(call.value) < 8 => "min_length" \in Range(call.errors))

\* C5 as amended: the min-length check belongs to the Customer.password
\* field, not to validate_password.  For a non-empty password shorter than 8
\* characters the field reports min_length and, after it, the failure of
\* validate_password if there is one; the empty password is reported as
\* blank only; validate_password("short1!") itself raises nothing.
C5_FieldReportsMinLength ==
    /\ Made("Customer.password") =>
        /\ (0 < Len(call.value) /\ Len(call.value) < 8)
               => call.errors = <<"min_length">> \o FirstFailingRule(call.value)
        /\ call.value = <<>> => call.errors = <<"blank">>
        /\ call.value = Str_short1 => call.errors = <<"min_length">>
    /\ (Made("validate_password") /\ call.value = Str_short1) => call.errors = <<>>

C5_Witness ==
    /\ Made("Customer.password")
    /\ Len(call.value) < 8
    /\ call.errors = <<"min_length", "invalid_password_numeric">>

\* C6: no two stored categories share a name, and creating a category under a
\* name that is stored fails with a uniqueness violation and leaves the stored
\* categories unchanged.
NoTwoCategoriesShareAName ==
    \A a, b \in DOMAIN categories :
        a # b => categories[a].name # categories[b].name

DuplicateCreateRejected ==
    \A name \in CategoryNames :
        (NameTaken(name, {}) /\ CreateCategory(name)) =>
            /\ categories' = categories
            /\ last'.errors = {<<"name", "unique">>}

C6_CategoryNameUnique ==
    []NoTwoCategoriesShareAName /\ [][DuplicateCreateRejected]_vars

C6_Witness ==
    /\ last.op = "CreateCategory"
    /\ last.arg = "Electronics"
    /\ last.errors = {<<"name", "unique">>}
    /\ Cardinality({c \in DOMAIN categories : categories[c].name = "Electronics"}) = 1

\* C7: every stored Product references a stored Seller, every stored Order a
\* stored Customer, every stored OrderItem a stored Order and a stored
\* Product, every stored Payment a stored Order; the rows a delete reports
\* as removed are no longer stored.
NoOrphans ==
    /\ \A p \in DOMAIN products :
        products[p].seller \in DOMAIN customers /\ customers[products[p].seller].seller
    /\ \A o \in DOMAIN orders : orders[o].customer \in DOMAIN customers
    /\ \A i \in DOMAIN items :
        items[i].order \in DOMAIN orders /\ items[i].product \in DOMAIN products
    /\ \A y \in DOMAIN payments : payments[y].order \in DOMAIN orders

C7_NoOrphans ==
    /\ NoOrphans
    /\ last.op = "DeleteCustomer" =>
        /\ last.id \notin DOMAIN customers
        /\ last.removed.products \cap DOMAIN products = {}
        /\ last.removed.items \cap DOMAIN items = {}

\* A Seller was deleted, its Products with it, and with them OrderItems of an
\* Order that stays.
C7_Witness ==
    /\ last.op = "DeleteCustomer"
    /\ last.removed.products # {}
    /\ last.removed.items # {}
    /\ last.removed.orders = {}
    /\ DOMAIN orders # {}

\* C8: itemCost is quantity times the price of the product when the item has
\* a product, and 0.00, with no error raised, when it has none.
C8_ItemCost ==
    Made("itemCost") =>
        /\ call.cost.raised = ""
        /\ call.cost.cents =
               IF call.item.product = {} THEN 0
               ELSE call.item.quantity * (CHOOSE p \in call.item.product : TRUE).price

\* C9: every stored Customer or Seller has a username of 3 to 20 characters,
\* a phone made of digits only, a password of at least 8 characters with a
\* digit, a letter and a special character, and an address of at least 10
\* characters.
C9_StoredCustomersValid ==
    \A c \in DOMAIN customers :
        /\ Len(customers[c].username) \in 3..20
        /\ \A i \in 1..Len(customers[c].phone) : customers[c].phone[i] \in AsciiDigits
        /\ Len(customers[c].password) >= 8
        /\ HasChar(AsciiDigits, customers[c].password)
        /\ HasChar(AsciiLetters, customers[c].password)
        /\ HasChar(ListedSpecials, customers[c].password)
        /\ Len(customers[c].address) >= 10

\* C10: a new Order is Pending; an update of the status to any of the six
\* statuses is accepted whatever the status was, and an update to any other
\* value is rejected and leaves the status as it was.
SixStatuses == {"Ca", "Pn", "Co", "P", "S", "R"}

StatusUpdateOutcome ==
    last.op = "UpdateOrderStatus" =>
        /\ last.errors = {} <=> last.arg \in SixStatuses
        /\ orders[last.id].status = IF last.arg \in SixStatuses THEN last.arg
                                    ELSE last.before

NewOrderIsPending ==
    \A id \in 1..MaxOrders :
        (id \notin DOMAIN orders /\ id \in DOMAIN orders') => orders'[id].status = "Pn"

C10_NoTransitionGraph ==
    []StatusUpdateOutcome /\ [][NewOrderIsPending]_vars

\* An order left Canceled.
C10_Witness ==
    /\ last.op = "UpdateOrderStatus"
    /\ last.before = "Ca"
    /\ last.arg = "P"
    /\ last.errors = {}
    /\ orders[last.id].status = "P"

====
